---- MODULE Spec2Model ----
(***************************************************************************)
(* Model of the cart-service of k8-demo-poly-app: the Redis-backed cart    *)
(* (redis/operations.go), its HTTP handlers (handlers/cart.go), the        *)
(* connection set-up with retry (redis/client.go) and the life cycle of    *)
(* the process (main.go); and of the product-service database client       *)
(* (database/client.go) and health endpoint (handlers/health.go); and of   *)
(* the checkout-service (CheckoutService.java) and of the cart of the      *)
(* shop UI (CartContext.jsx).                                              *)
(*                                                                         *)
(* Redis executes one command at a time, so one command sent to the store  *)
(* is one atomic step of the model.  The go-redis client is configured     *)
(* with MaxRetries: 3: a command whose request or reply is lost is sent    *)
(* again by the client, up to MaxCmdRetries more times.                    *)
(***************************************************************************)
EXTENDS Integers, Sequences, FiniteSets, TLC

\* ---------------------------------------------------------------- bounds
Users == {"u1", "u2"}
Products == {"p1", "p2"}
Tasks == {"t1", "t2"}
Quantities == {-1, 0, 2}
MaxOps == 2
MaxExternalWrites == 1
MaxFaults == 1
MaxRequests == 2
MaxCloses == 2
MaxCheckouts == 2
MaxItems == 2
MaxOtherAdds == 1
MaxRemoves == 1

\* ------------------------------------------------------ program constants
\* redis.Options.MaxRetries: automatic retry for failed commands
MaxCmdRetries == 3
\* DefaultRetryConfig
DefaultInitialDelay == 100
DefaultMaxDelay == 2000
DefaultMaxRetries == 5
DefaultJitterPct == 10

NoField == <<"nil">>
NoUser == ""
NoProduct == ""

\* ------------------------------------------------ decimal strings <-> int
\* A stored value is a string, modelled as a sequence of one-character
\* strings.
Digits == <<"0", "1", "2", "3", "4", "5", "6", "7", "8", "9">>

IsDigit(c) == \E i \in 1..10 : Digits[i] = c

DigitVal(c) == (CHOOSE i \in 1..10 : Digits[i] = c) - 1

RECURSIVE ParseDigits(_)
ParseDigits(s) ==
    IF s = <<>> THEN 0
    ELSE 10 * ParseDigits(SubSeq(s, 1, Len(s) - 1)) + DigitVal(s[Len(s)])

AllDigits(s) == \A i \in 1..Len(s) : IsDigit(s[i])

\* strconv.Atoi: optional sign, then at least one digit, nothing else
Atoi(s) ==
    LET signed == Len(s) > 0 /\ s[1] \in {"+", "-"}
        body == IF signed THEN Tail(s) ELSE s
    IN  IF body = <<>> \/ ~AllDigits(body)
        THEN [ok |-> FALSE, n |-> 0]
        ELSE [ok |-> TRUE,
              n |-> IF signed /\ s[1] = "-" THEN 0 - ParseDigits(body)
                    ELSE ParseDigits(body)]

RECURSIVE FormatNat(_)
FormatNat(n) ==
    IF n < 10 THEN <<Digits[n + 1]>>
    ELSE Append(FormatNat(n \div 10), Digits[(n % 10) + 1])

\* decimal rendering of an integer, as Redis stores the result of HINCRBY
Itoa(n) == IF n < 0 THEN <<"-">> \o FormatNat(0 - n) ELSE FormatNat(n)

\* Redis accepts a hash value as an integer only in canonical decimal form
IsRedisInteger(s) == Atoi(s).ok /\ Itoa(Atoi(s).n) = s


\* --------------------------------------------------------- the Redis store
\* The store holds one hash per cart key "cart:" + userID; a hash that has
\* no field does not exist as a key.
EmptyHash == [p \in Products |-> NoField]

Fields(h) == {p \in Products : h[p] # NoField}

\* HINCRBY key field increment
HIncrBy(store, u, p, q) ==
    IF store[u][p] = NoField
    THEN [err |-> FALSE, store |-> [store EXCEPT ![u][p] = Itoa(q)]]
    ELSE IF ~IsRedisInteger(store[u][p])
    THEN [err |-> TRUE, store |-> store]
    ELSE [err |-> FALSE,
          store |-> [store EXCEPT ![u][p] = Itoa(Atoi(store[u][p]).n + q)]]

\* HGETALL key: the fields of the hash with their values
HGetAll(store, u) == [p \in Fields(store[u]) |-> store[u][p]]

\* variant of the clear: one field removed per command
Del_OneField(store, u) ==
    [count |-> IF Fields(store[u]) = {} THEN 0 ELSE 1,
     store |-> IF Fields(store[u]) = {} THEN store
               ELSE [store EXCEPT
                        ![u][CHOOSE p \in Fields(store[u]) : TRUE] = NoField]]

\* variant of the clear: the hashes of all carts removed
Del_AllCarts(store, u) ==
    [count |-> IF Fields(store[u]) = {} THEN 0 ELSE 1,
     store |-> [v \in Users |-> EmptyHash]]

\* DEL key: removes the whole hash, answers the number of keys removed
Del(store, u) ==
    [count |-> IF Fields(store[u]) = {} THEN 0 ELSE 1,
     store |-> [store EXCEPT ![u] = EmptyHash]]

\* HLEN key
HLen(store, u) == Cardinality(Fields(store[u]))

\* ------------------------------------------------------- redis.Client code
\* variants of the quantity check: zero let through, no check at all
AddItemQuantityInvalid_ZeroAllowed(q) == q < 0

AddItemQuantityInvalid_NoCheck(q) == FALSE

\* Client.AddItem: the quantity check before any store command
AddItemQuantityInvalid(q) == q <= 0

\* variant of the conversion: gives up at an entry that does not parse
GetCartItems_StopAtInvalid(result) ==
    IF \E f \in DOMAIN result : ~Atoi(result[f]).ok
    THEN {}
    ELSE {[ProductID |-> p, Quantity |-> Atoi(result[p]).n] :
             p \in DOMAIN result}

\* Client.GetCart: conversion of the HGETALL result to []CartItem
GetCartItems(result) ==
    {[ProductID |-> p, Quantity |-> Atoi(result[p]).n] :
        p \in {f \in DOMAIN result : Atoi(result[f]).ok}}

\* variant of ClearCart: a DEL that removed no key is reported as an error
ClearCartErr_NotFound(count) == count = 0

\* Client.ClearCart: the error of the DEL reply (the count is not looked at)
ClearCartErr(count) == FALSE

RECURSIVE SumOver(_, _)
SumOver(f, S) ==
    IF S = {} THEN 0
    ELSE LET x == CHOOSE y \in S : TRUE IN f[x] + SumOver(f, S \ {x})

\* variant of ItemCount: the sum of the quantities instead of HLEN
ItemCountResult_SumOfQuantities(store, u) ==
    SumOver([p \in Fields(store[u]) |-> Atoi(store[u][p]).n],
            Fields(store[u]))

\* Client.ItemCount: the HLEN reply is returned as it is
ItemCountResult(store, u) == HLen(store, u)

\* The ways one send of a command can end: answered, or failed by a timeout
\* or connection reset (before or after the store applied the command), or
\* failed because the context of the request was cancelled.
NetOutcomes ==
    {"ok", "lostRequest", "lostReply", "cancelRequest", "cancelReply"}

Reached(out) == out \in {"ok", "lostReply", "cancelReply"}

\* go-redis resends a command that failed by a timeout or a network error
\* while attempt < Options.MaxRetries; a cancelled context is not retried
ShouldRetry(att, out) ==
    out \in {"lostRequest", "lostReply"} /\ att < MaxCmdRetries

\* ------------------------------------------------------- handlers/cart.go
\* AddItemRequest binding: product_id required; quantity required, min=1
BindAddItemRequest(p, q) == p # NoProduct /\ q # 0 /\ q >= 1

\* CartResponse.TotalItems = len(responseItems)
TotalItems(items) == Cardinality(items)

\* ------------------------------------------------------------------ state
VARIABLES
    hash,       \* the Redis store: user -> product -> stored string
    pc,         \* per request task: "idle", the store command it is at,
                \*                   or "ret" when its answer is written
    op,         \* per task: the request it runs
    attempt,    \* per task: go-redis attempt index of the current command
    nApplied,   \* per task: times the store applied the HINCRBY of op
    resp,       \* per task: the answer of its request
    nops,       \* requests started so far
    applied,    \* history: user -> product -> sum applied since last DEL
    expected,   \* history: sum of the increments that returned success
                \*          since the last clearCart that returned success
    cleared,    \* history: user -> a DEL has been applied to the cart
    allOK,      \* history: no store command has returned an error
    sequential, \* history: no request started while another was running
    nwrites,    \* writes to the store made by other clients so far
    nfaults     \* failed sends so far

cartVars == <<hash, pc, op, attempt, nApplied, resp, nops, applied,
              expected, cleared, allOK, sequential, nwrites, nfaults>>

VARIABLES
    connPc,     \* "start", "ping", "wait", "connected", "failed", "cancelled"
    retryConfig,     \* the RetryConfig of the run
    cattempt,   \* the loop variable attempt of pingWithRetry
    pings,      \* rdb.Ping calls made so far
    delays,     \* the waits started so far: <<[base, actual]>>
    lastErr,    \* "" (nil) or the error of the last ping
    ctxDone,    \* the context of the call is cancelled or past its deadline
    timerFired  \* the time.After timer of the current wait has fired

connVars == <<connPc, retryConfig, cattempt, pings, delays, lastErr, ctxDone,
              timerFired>>

\* product-service database.NewClient
VARIABLES
    dbPc,       \* "none" (no call), "start", "attempt", "sleep",
                \* "connected", "failed", "parseError"
    dbCfg,      \* the Config of the call: [MaxRetries, urlValid]
    dbAttempt,  \* the loop variable attempt of NewClient
    dbTries,    \* liveness attempts (NewWithConfig and Ping) made so far
    dbDelays,   \* the sleeps started so far: <<[base, actual]>>
    dbErr,      \* "" (nil) or the error of the last attempt
    dbPool,     \* "nil" or "open": the pool variable of NewClient
    dbCtxDone,  \* the context of the call is cancelled or past its deadline
    dbRand,     \* the sample of rand.Float64() of the last sleep, in
                \* thousandths; -1 before the first
    dbOpen      \* pools the call has created and that are not closed

dbVars == <<dbPc, dbCfg, dbAttempt, dbTries, dbDelays, dbErr, dbPool,
            dbCtxDone, dbRand, dbOpen>>

\* cart-service main
VARIABLES
    mainPc,       \* "none" (no process), "initRedis", "setup", "waitQuit",
                  \* "shutdown", "shutdownWait", "exited"
    listenerPc,   \* the ListenAndServe goroutine: "none", "starting",
                  \* "listening", "closed"
    inflight,     \* requests accepted and not yet answered
    signalled,    \* SIGINT or SIGTERM has been received
    graceElapsed, \* the 5s context of srv.Shutdown is past its deadline
    redisClosed,  \* redisClient.Close() has run
    exitCode,     \* -1 while the process runs, then its exit status
    served        \* history: requests accepted so far

mainVars == <<mainPc, listenerPc, inflight, signalled, graceElapsed,
              redisClosed, exitCode, served>>

\* an established handle of each store: Close and the health endpoint
VARIABLES
    hClosed,      \* store -> the handle has been closed
    closeResults, \* store -> the results of the Close calls made so far
    healthPing,   \* store -> result of the ping of the last GET /healthz
    healthResp    \* store -> the answer of the last GET /healthz

handleVars == <<hClosed, closeResults, healthPing, healthResp>>

\* checkout-service CheckoutService.processCheckout
VARIABLES
    checkout,     \* the current call of processCheckout: its position, its
                  \* locals and its result
    transactions  \* the rows transactionRepository.save has stored

coVars == <<checkout, transactions>>

\* shop-ui CartContext: the cart of user "guest"
VARIABLES
    guestCart,    \* the server-side cart of "guest": product id -> quantity
    shop          \* the CartProvider of one session: its cartItems state and
                  \* the position and locals of its removeFromCart call

uiVars == <<guestCart, shop>>

appVars == <<coVars, uiVars>>

svcVars == <<dbVars, mainVars, handleVars, appVars>>

NoOp == [kind |-> "none", user |-> NoUser, product |-> NoProduct, qty |-> 0]
NoResp == [status |-> 0, err |-> "", items |-> {}, total |-> 0, count |-> 0,
           warning |-> FALSE]

Answer(status, err) == [NoResp EXCEPT !.status = status, !.err = err]

ZeroCart == [p \in Products |-> 0]

\* The carts the service starts from, the result of earlier successful
\* increments: u1 has never been touched, u2 holds two products.
InitCarts ==
    [u \in Users |->
        IF u = "u1" THEN [p \in Products |-> 0]
        ELSE [p \in Products |-> IF p = "p1" THEN 1 ELSE 3]]

StoredCart(c) == [p \in Products |-> IF c[p] = 0 THEN NoField ELSE Itoa(c[p])]

InitCart ==
    /\ hash = [u \in Users |-> StoredCart(InitCarts[u])]
    /\ applied = InitCarts
    /\ expected = InitCarts
    /\ pc = [t \in Tasks |-> "idle"]
    /\ op = [t \in Tasks |-> NoOp]
    /\ attempt = [t \in Tasks |-> 0]
    /\ nApplied = [t \in Tasks |-> 0]
    /\ resp = [t \in Tasks |-> NoResp]
    /\ nops = 0
    /\ cleared = [u \in Users |-> FALSE]
    /\ allOK = TRUE
    /\ sequential = TRUE
    /\ nwrites = 0
    /\ nfaults = 0

\* A request arrives and runs up to its first store command.
\*   POST/GET/DELETE are the handlers CartHandler.AddItem/GetCart/DeleteCart,
\*   ADD and COUNT are direct calls of Client.AddItem and Client.ItemCount.
Begin(t, kind, u, p, q) ==
    /\ connPc = "connected"
    /\ UNCHANGED <<connVars, svcVars>>
    /\ pc[t] = "idle"
    /\ nops < MaxOps
    /\ nops' = nops + 1
    /\ op' = [op EXCEPT ![t] = [kind |-> kind, user |-> u,
                                product |-> p, qty |-> q]]
    /\ sequential' = (sequential /\ \A o \in Tasks : pc[o] = "idle")
    /\ LET reject(status, err) ==
               /\ pc' = [pc EXCEPT ![t] = "ret"]
               /\ resp' = [resp EXCEPT ![t] = Answer(status, err)]
           go(cmd) ==
               /\ pc' = [pc EXCEPT ![t] = cmd]
               /\ resp' = resp
       IN  CASE kind = "POST" ->
                  IF u = NoUser THEN reject(400, "user_id is required")
                  ELSE IF ~BindAddItemRequest(p, q)
                  THEN reject(400, "Invalid request body")
                  ELSE IF AddItemQuantityInvalid(q)
                  THEN reject(500, "Failed to add item to cart")
                  ELSE go("hincrby")
            [] kind = "ADD" ->
                  IF AddItemQuantityInvalid(q)
                  THEN reject(0, "quantity must be positive")
                  ELSE go("hincrby")
            [] kind = "GET" ->
                  IF u = NoUser THEN reject(400, "user_id is required")
                  ELSE go("hgetall")
            [] kind = "DELETE" ->
                  IF u = NoUser THEN reject(400, "user_id is required")
                  ELSE go("del")
            [] OTHER -> go("hlen")
    /\ UNCHANGED <<hash, attempt, nApplied, applied, expected, cleared,
                   allOK, nwrites, nfaults>>

\* the requests POST /v1/cart/:user_id is tried with
PostInputs ==
    (Users \X Products \X Quantities)
        \cup {<<NoUser, "p1", 1>>, <<"u1", NoProduct, 1>>}

PostRequest(t) == \E in \in PostInputs : Begin(t, "POST", in[1], in[2], in[3])

AddItemCall(t) ==
    \E u \in Users, p \in Products, q \in Quantities :
        Begin(t, "ADD", u, p, q)

GetRequest(t) ==
    \E u \in Users \cup {NoUser} : Begin(t, "GET", u, NoProduct, 0)

DeleteRequest(t) ==
    \E u \in Users \cup {NoUser} : Begin(t, "DELETE", u, NoProduct, 0)

ItemCountCall(t) == \E u \in Users : Begin(t, "COUNT", u, NoProduct, 0)

\* The answer a request gives when its store command returned an error.
StoreFailure(kind) ==
    CASE kind = "POST" -> Answer(500, "Failed to add item to cart")
      [] kind = "ADD" -> Answer(0, "failed to add item to cart")
      [] kind = "GET" -> Answer(500, "Failed to retrieve cart")
      [] kind = "DELETE" -> Answer(500, "Failed to clear cart")
      [] OTHER -> Answer(0, "failed to get item count")

\* A failed send uses up one unit of the fault budget.
Fault(out) ==
    /\ out # "ok" => nfaults < MaxFaults
    /\ nfaults' = IF out = "ok" THEN nfaults ELSE nfaults + 1

\* One send of HINCRBY by Client.AddItem.  The store applies the command
\* when the request reaches it; the client sees the reply only when the
\* outcome is "ok".
HIncrBySend(t) ==
    /\ pc[t] = "hincrby"
    /\ UNCHANGED <<connVars, svcVars>>
    /\ \E out \in NetOutcomes :
        LET u == op[t].user
            p == op[t].product
            q == op[t].qty
            r == HIncrBy(hash, u, p, q)
            done == Reached(out) /\ ~r.err
        IN  /\ Fault(out)
            /\ hash' = IF Reached(out) THEN r.store ELSE hash
            /\ applied' = IF done
                          THEN [applied EXCEPT ![u][p] = @ + q]
                          ELSE applied
            /\ nApplied' = IF done
                           THEN [nApplied EXCEPT ![t] = @ + 1]
                           ELSE nApplied
            /\ IF out = "ok" /\ ~r.err
               THEN /\ expected' = [expected EXCEPT ![u][p] = @ + q]
                    /\ allOK' = allOK
                    /\ IF op[t].kind = "POST"
                       THEN /\ pc' = [pc EXCEPT ![t] = "hgetall"]
                            /\ attempt' = [attempt EXCEPT ![t] = 0]
                            /\ resp' = resp
                       ELSE /\ pc' = [pc EXCEPT ![t] = "ret"]
                            /\ attempt' = attempt
                            /\ resp' = [resp EXCEPT ![t] = Answer(0, "")]
               ELSE IF ShouldRetry(attempt[t], out)
               THEN /\ attempt' = [attempt EXCEPT ![t] = @ + 1]
                    /\ UNCHANGED <<pc, resp, expected, allOK>>
               ELSE /\ pc' = [pc EXCEPT ![t] = "ret"]
                    /\ resp' = [resp EXCEPT ![t] = StoreFailure(op[t].kind)]
                    /\ allOK' = FALSE
                    /\ UNCHANGED <<attempt, expected>>
    /\ UNCHANGED <<op, nops, cleared, sequential, nwrites>>

\* One send of HGETALL by Client.GetCart (called by the GET handler and by
\* the POST handler after its increment).
HGetAllSend(t) ==
    /\ pc[t] = "hgetall"
    /\ UNCHANGED <<connVars, svcVars>>
    /\ \E out \in NetOutcomes :
        LET u == op[t].user
            items == GetCartItems(HGetAll(hash, u))
        IN  /\ Fault(out)
            /\ IF out = "ok"
               THEN /\ pc' = [pc EXCEPT ![t] = "ret"]
                    /\ resp' = [resp EXCEPT ![t] =
                           [NoResp EXCEPT !.status = 200, !.items = items,
                                          !.total = TotalItems(items)]]
                    /\ UNCHANGED <<attempt, allOK>>
               ELSE IF ShouldRetry(attempt[t], out)
               THEN /\ attempt' = [attempt EXCEPT ![t] = @ + 1]
                    /\ UNCHANGED <<pc, resp, allOK>>
               ELSE /\ pc' = [pc EXCEPT ![t] = "ret"]
                    /\ resp' = [resp EXCEPT ![t] =
                           IF op[t].kind = "POST"
                           THEN [NoResp EXCEPT !.status = 200,
                                               !.warning = TRUE]
                           ELSE StoreFailure(op[t].kind)]
                    /\ allOK' = FALSE
                    /\ UNCHANGED attempt
    /\ UNCHANGED <<hash, op, nApplied, nops, applied, expected, cleared,
                   sequential, nwrites>>

\* One send of DEL by Client.ClearCart.
DelSend(t) ==
    /\ pc[t] = "del"
    /\ UNCHANGED <<connVars, svcVars>>
    /\ \E out \in NetOutcomes :
        LET u == op[t].user
            d == Del(hash, u)
        IN  /\ Fault(out)
            /\ hash' = IF Reached(out) THEN d.store ELSE hash
            /\ applied' = IF Reached(out)
                          THEN [applied EXCEPT ![u] = ZeroCart]
                          ELSE applied
            /\ cleared' = IF Reached(out)
                          THEN [cleared EXCEPT ![u] = TRUE]
                          ELSE cleared
            /\ IF out = "ok" /\ ~ClearCartErr(d.count)
               THEN /\ pc' = [pc EXCEPT ![t] = "ret"]
                    /\ resp' = [resp EXCEPT ![t] =
                           [Answer(200, "") EXCEPT !.count = d.count]]
                    /\ expected' = [expected EXCEPT ![u] = ZeroCart]
                    /\ UNCHANGED <<attempt, allOK>>
               ELSE IF ShouldRetry(attempt[t], out)
               THEN /\ attempt' = [attempt EXCEPT ![t] = @ + 1]
                    /\ UNCHANGED <<pc, resp, expected, allOK>>
               ELSE /\ pc' = [pc EXCEPT ![t] = "ret"]
                    /\ resp' = [resp EXCEPT ![t] = StoreFailure(op[t].kind)]
                    /\ allOK' = FALSE
                    /\ UNCHANGED <<attempt, expected>>
    /\ UNCHANGED <<op, nApplied, nops, sequential, nwrites>>

\* One send of HLEN by Client.ItemCount.
HLenSend(t) ==
    /\ pc[t] = "hlen"
    /\ UNCHANGED <<connVars, svcVars>>
    /\ \E out \in NetOutcomes :
        LET u == op[t].user
        IN  /\ Fault(out)
            /\ IF out = "ok"
               THEN /\ pc' = [pc EXCEPT ![t] = "ret"]
                    /\ resp' = [resp EXCEPT ![t] =
                           [NoResp EXCEPT !.count = ItemCountResult(hash, u)]]
                    /\ UNCHANGED <<attempt, allOK>>
               ELSE IF ShouldRetry(attempt[t], out)
               THEN /\ attempt' = [attempt EXCEPT ![t] = @ + 1]
                    /\ UNCHANGED <<pc, resp, allOK>>
               ELSE /\ pc' = [pc EXCEPT ![t] = "ret"]
                    /\ resp' = [resp EXCEPT ![t] = StoreFailure(op[t].kind)]
                    /\ allOK' = FALSE
                    /\ UNCHANGED attempt
    /\ UNCHANGED <<hash, op, nApplied, nops, applied, expected, cleared,
                   sequential, nwrites>>

\* The answer has been delivered; the task is free for the next request.
Return(t) ==
    /\ pc[t] = "ret"
    /\ UNCHANGED <<connVars, svcVars>>
    /\ pc' = [pc EXCEPT ![t] = "idle"]
    /\ op' = [op EXCEPT ![t] = NoOp]
    /\ resp' = [resp EXCEPT ![t] = NoResp]
    /\ attempt' = [attempt EXCEPT ![t] = 0]
    /\ nApplied' = [nApplied EXCEPT ![t] = 0]
    /\ UNCHANGED <<hash, nops, applied, expected, cleared, allOK,
                   sequential, nwrites, nfaults>>

\* Another client of the same Redis writes a field of a cart hash (HSET).
ExternalValues == {<<"a">>, <<"0">>, <<"-", "1">>}

ExternalWrite ==
    /\ nwrites < MaxExternalWrites
    /\ UNCHANGED <<connVars, svcVars>>
    /\ \E u \in Users, p \in Products, v \in ExternalValues :
           hash' = [hash EXCEPT ![u][p] = v]
    /\ nwrites' = nwrites + 1
    /\ UNCHANGED <<pc, op, attempt, nApplied, resp, nops, applied, expected,
                   cleared, allOK, sequential, nfaults>>

\* --------------------------------------------- redis/client.go: connect
\* Durations are in milliseconds.
\* RetryConfig; DefaultRetryConfig() is the one InitRedis uses
RetryConfig(maxRetries) ==
    [InitialDelay |-> DefaultInitialDelay,
     MaxDelay |-> DefaultMaxDelay,
     MaxRetries |-> maxRetries,
     JitterPct |-> DefaultJitterPct]

DefaultRetryConfig == RetryConfig(DefaultMaxRetries)

\* the configurations pingWithRetry is run with
RetryCounts == {-1, 0, 1, DefaultMaxRetries, 7}

\* samples of rand.Float64(), in thousandths: a value of [0, 1)
RandSamples == {0, 500, 999}

RECURSIVE Pow2(_)
Pow2(n) == IF n <= 0 THEN 1 ELSE 2 * Pow2(n - 1)

Min(a, b) == IF a < b THEN a ELSE b

\* variant of the loop condition: MaxRetries attempts in all
LoopContinues_Exclusive(config, att) == att < config.MaxRetries

\* pingWithRetry: for attempt := 0; attempt <= config.MaxRetries; attempt++
LoopContinues(config, att) == att <= config.MaxRetries

\* pingWithRetry: if attempt == config.MaxRetries { break }
LastAttempt(config, att) == att = config.MaxRetries

BaseDelay_OneBased(config, att) ==
    Min(config.InitialDelay * Pow2(att + 1), config.MaxDelay)

\* pingWithRetry: delay before the next attempt, without the jitter
BaseDelay(config, att) ==
    Min(config.InitialDelay * Pow2(att), config.MaxDelay)

\* pingWithRetry: jitter := 1.0 + (rand.Float64()*2-1)*JitterPct, applied to
\* the delay; r is the random draw in thousandths, JitterPct in hundredths
JitterDelay(config, base, r) ==
    (base * (100000 + (2 * r - 1000) * config.JitterPct)) \div 100000

vars == <<cartVars, connVars, svcVars>>

InitConnect ==
    /\ connPc = "start"
    /\ retryConfig \in {RetryConfig(n) : n \in RetryCounts}
    /\ cattempt = 0
    /\ pings = 0
    /\ delays = <<>>
    /\ lastErr = ""
    /\ ctxDone = FALSE
    /\ timerFired = FALSE

\* the state InitRedis leaves when the first ping succeeded
Connected ==
    /\ connPc = "connected"
    /\ retryConfig = DefaultRetryConfig
    /\ cattempt = 0
    /\ pings = 1
    /\ delays = <<>>
    /\ lastErr = ""
    /\ ctxDone = FALSE
    /\ timerFired = FALSE

\* for attempt := 0; attempt <= config.MaxRetries: entry of the loop
EnterLoop ==
    /\ connPc = "start"
    /\ connPc' = IF LoopContinues(retryConfig, cattempt) THEN "ping"
                 ELSE IF lastErr = "" THEN "connected" ELSE "failed"
    /\ UNCHANGED <<retryConfig, cattempt, pings, delays, lastErr, ctxDone,
                   timerFired, cartVars, svcVars>>

\* One iteration up to the select: ping, and on failure either leave the
\* loop (last attempt) or compute the delay and start the timer.
PingAttempt ==
    /\ connPc = "ping"
    /\ pings' = pings + 1
    /\ \E ok \in BOOLEAN, r \in RandSamples :
        /\ ok => ~ctxDone
        /\ IF ok
           THEN /\ connPc' = "connected"
                /\ UNCHANGED <<lastErr, delays>>
           ELSE /\ lastErr' = IF ctxDone THEN "context done"
                                         ELSE "connection refused"
                /\ IF LastAttempt(retryConfig, cattempt)
                   THEN /\ connPc' = "failed"
                        /\ delays' = delays
                   ELSE LET base == BaseDelay(retryConfig, cattempt)
                        IN  /\ connPc' = "wait"
                            /\ delays' = Append(delays,
                                   [base |-> base,
                                    actual |-> JitterDelay(retryConfig, base, r)])
    /\ timerFired' = FALSE
    /\ UNCHANGED <<retryConfig, cattempt, ctxDone, cartVars, svcVars>>

\* time.After(delay) fires.  The goroutine is parked in the select, and the
\* first of the two events wakes it: once the context is done the timer no
\* longer decides.
TimerFires ==
    /\ connPc = "wait"
    /\ ~timerFired
    /\ ~ctxDone
    /\ timerFired' = TRUE
    /\ UNCHANGED <<connPc, retryConfig, cattempt, pings, delays, lastErr, ctxDone,
                   cartVars, svcVars>>

\* the context is cancelled or reaches its deadline
CtxCancel ==
    /\ connPc \in {"start", "ping", "wait"}
    /\ ~ctxDone
    /\ ctxDone' = TRUE
    /\ UNCHANGED <<connPc, retryConfig, cattempt, pings, delays, lastErr,
                   timerFired, cartVars, svcVars>>

\* the select of pingWithRetry resumes with the case that woke it: the
\* timer when it fired first, else the cancelled context
SelectWake ==
    /\ connPc = "wait"
    /\ \E branch \in {"done", "timer"} :
        /\ branch = "done" => (ctxDone /\ ~timerFired)
        /\ branch = "timer" => timerFired
        /\ IF branch = "done"
           THEN /\ connPc' = "cancelled"
                /\ lastErr' = "context done"
                /\ UNCHANGED cattempt
           ELSE /\ cattempt' = cattempt + 1
                /\ connPc' = IF LoopContinues(retryConfig, cattempt + 1)
                             THEN "ping" ELSE "failed"
                /\ UNCHANGED lastErr
    /\ UNCHANGED <<retryConfig, pings, delays, ctxDone, timerFired, cartVars, svcVars>>

\* ------------------------------ product-service database/client.go
\* the two backing stores
Stores == {"redis", "postgres"}

\* cfg.MaxRetries = 5 when the Config leaves it 0
DbDefaultMaxRetries == 5
\* baseDelay := 100 * time.Millisecond
DbBaseDelayMs == 100
\* maxDelay := 2 * time.Second
DbMaxDelayMs == 2000
\* "Add jitter (+-10%)": rand.Float64()*0.2-0.1, in hundredths
DbJitterPct == 10

\* Config, as far as NewClient reads it
DbConfig(maxRetries, urlValid) ==
    [MaxRetries |-> maxRetries, urlValid |-> urlValid]

\* the values of Config.MaxRetries NewClient is run with
DbRetryCounts == {-1, 0, 1, DbDefaultMaxRetries, 7}

\* if cfg.MaxRetries == 0 { cfg.MaxRetries = 5 }
DbDefaulted(cfg) ==
    IF cfg.MaxRetries = 0 THEN [cfg EXCEPT !.MaxRetries = DbDefaultMaxRetries]
    ELSE cfg

\* for attempt := 1; attempt <= cfg.MaxRetries
DbLoopContinues(cfg, att) == att <= cfg.MaxRetries

\* variant: a sleep follows every failed attempt
DbSleeps_Always(cfg, att) == TRUE

\* if attempt < cfg.MaxRetries: a sleep follows the failed attempt
DbSleeps(cfg, att) == att < cfg.MaxRetries

DbBreaks_Never(err) == FALSE

\* if err == nil { break }
DbBreaks(err) == err = ""

DbNextAttempt_Stuck(att) == att

\* attempt++
DbNextAttempt(att) == att + 1

DbBaseDelay_NoCap(att) == DbBaseDelayMs * Pow2(att)

\* delay := baseDelay * (1 << attempt), capped at maxDelay
DbBaseDelay(att) == Min(DbBaseDelayMs * Pow2(att), DbMaxDelayMs)

\* the conversion of a quotient to an integer: truncation toward zero
TruncQuot(a, b) == IF a >= 0 THEN a \div b ELSE 0 - ((0 - a) \div b)

\* jitter := time.Duration(rand.Float64()*0.2-0.1) * delay, for the sample
\* r/1000 of rand.Float64(): the conversion to time.Duration truncates the
\* factor (2r - 1000)/10000 before the multiplication
DbJitter(delay, r) == TruncQuot(2 * r - 1000, 10000) * delay

\* no call of NewClient
DbIdle ==
    /\ dbPc = "none"
    /\ dbCfg = DbConfig(0, TRUE)
    /\ dbAttempt = 0
    /\ dbTries = 0
    /\ dbDelays = <<>>
    /\ dbErr = ""
    /\ dbPool = "nil"
    /\ dbCtxDone = FALSE
    /\ dbRand = -1
    /\ dbOpen = 0

\* a call of NewClient
InitDb ==
    /\ dbPc = "start"
    /\ dbCfg \in {DbConfig(n, v) : n \in DbRetryCounts, v \in BOOLEAN}
    /\ dbAttempt = 0
    /\ dbTries = 0
    /\ dbDelays = <<>>
    /\ dbErr = ""
    /\ dbPool = "nil"
    /\ dbCtxDone = FALSE
    /\ dbRand = -1
    /\ dbOpen = 0

\* entry: the default of MaxRetries and the first test of the loop
DbEnter ==
    /\ dbPc = "start"
    /\ dbCfg' = DbDefaulted(dbCfg)
    /\ dbAttempt' = 1
    /\ dbPc' = IF DbLoopContinues(DbDefaulted(dbCfg), 1) THEN "attempt"
               ELSE "connected"
    /\ UNCHANGED <<dbTries, dbDelays, dbErr, dbPool, dbCtxDone, dbRand, dbOpen>>
    /\ UNCHANGED <<cartVars, connVars, mainVars, handleVars, appVars>>

\* One iteration: ParseConfig, NewWithConfig, Ping and, on failure, the
\* start of the sleep or the end of the loop.
DbAttempt ==
    /\ dbPc = "attempt"
    /\ IF ~dbCfg.urlValid
       THEN /\ dbPc' = "parseError"
            /\ dbErr' = "failed to parse database URL"
            /\ UNCHANGED <<dbAttempt, dbTries, dbDelays, dbPool, dbRand, dbOpen>>
       ELSE /\ dbTries' = dbTries + 1
            /\ \E newOK \in BOOLEAN, pingOK \in BOOLEAN, r \in RandSamples :
                /\ pingOK => (newOK /\ ~dbCtxDone)
                /\ dbPool' = IF newOK THEN "open" ELSE "nil"
                /\ dbOpen' = IF newOK THEN dbOpen + 1 ELSE dbOpen
                /\ dbErr' = IF pingOK THEN ""
                            ELSE IF dbCtxDone THEN "context done"
                            ELSE "connection refused"
                /\ IF DbBreaks(IF pingOK THEN "" ELSE "error")
                   THEN /\ dbPc' = "connected"
                        /\ UNCHANGED <<dbAttempt, dbDelays, dbRand>>
                   ELSE /\ IF DbSleeps(dbCfg, dbAttempt)
                           THEN LET base == DbBaseDelay(dbAttempt)
                                IN  /\ dbPc' = "sleep"
                                    /\ dbDelays' = Append(dbDelays,
                                         [base |-> base,
                                          actual |-> base + DbJitter(base, r)])
                                    /\ dbRand' = r
                                    /\ UNCHANGED dbAttempt
                           ELSE /\ dbAttempt' = DbNextAttempt(dbAttempt)
                                /\ dbPc' = IF DbLoopContinues(dbCfg,
                                                  DbNextAttempt(dbAttempt))
                                           THEN "attempt"
                                           ELSE IF pingOK THEN "connected"
                                           ELSE "failed"
                                /\ UNCHANGED <<dbDelays, dbRand>>
    /\ UNCHANGED <<dbCfg, dbCtxDone>>
    /\ UNCHANGED <<cartVars, connVars, mainVars, handleVars, appVars>>

\* time.Sleep(delay) returns; attempt++ and the test of the loop
DbSleepEnds ==
    /\ dbPc = "sleep"
    /\ dbAttempt' = DbNextAttempt(dbAttempt)
    /\ dbPc' = IF DbLoopContinues(dbCfg, DbNextAttempt(dbAttempt))
               THEN "attempt"
               ELSE IF dbErr = "" THEN "connected" ELSE "failed"
    /\ UNCHANGED <<dbCfg, dbTries, dbDelays, dbErr, dbPool, dbCtxDone, dbRand,
                   dbOpen>>
    /\ UNCHANGED <<cartVars, connVars, mainVars, handleVars, appVars>>

\* the context of the call is cancelled or reaches its deadline
DbCtxCancel ==
    /\ dbPc \in {"start", "attempt", "sleep"}
    /\ ~dbCtxDone
    /\ dbCtxDone' = TRUE
    /\ UNCHANGED <<dbPc, dbCfg, dbAttempt, dbTries, dbDelays, dbErr, dbPool,
                   dbRand, dbOpen>>
    /\ UNCHANGED <<cartVars, connVars, mainVars, handleVars, appVars>>

NextDb == DbEnter \/ DbAttempt \/ DbSleepEnds \/ DbCtxCancel

\* ------------------------------------------------ cart-service main.go
\* no process is modelled
MainIdle ==
    /\ mainPc = "none"
    /\ listenerPc = "none"
    /\ inflight = 0
    /\ signalled = FALSE
    /\ graceElapsed = FALSE
    /\ redisClosed = FALSE
    /\ exitCode = -1
    /\ served = 0

\* main has called redis.InitRedis
InitMain ==
    /\ mainPc = "initRedis"
    /\ listenerPc = "none"
    /\ inflight = 0
    /\ signalled = FALSE
    /\ graceElapsed = FALSE
    /\ redisClosed = FALSE
    /\ exitCode = -1
    /\ served = 0

\* the error InitRedis returns: nil, or the error of pingWithRetry
InitRedisErr == IF connPc = "connected" THEN "" ELSE lastErr

InitRedisFatal_Ignored(err) == FALSE

\* if err != nil { zapLogger.Fatal(...) }: the process exits with status 1
InitRedisFatal(err) == err # ""

\* InitRedis returns to main
MainInitRedisReturns ==
    /\ mainPc = "initRedis"
    /\ connPc \in {"connected", "failed", "cancelled"}
    /\ IF InitRedisFatal(InitRedisErr)
       THEN /\ mainPc' = "exited"
            /\ exitCode' = 1
       ELSE /\ mainPc' = "setup"
            /\ UNCHANGED exitCode
    /\ UNCHANGED <<listenerPc, inflight, signalled, graceElapsed,
                   redisClosed, served>>
    /\ UNCHANGED <<cartVars, connVars, dbVars, handleVars, appVars>>

\* router and server are built; go func() { srv.ListenAndServe() }()
MainStartServer ==
    /\ mainPc = "setup"
    /\ mainPc' = "waitQuit"
    /\ listenerPc' = "starting"
    /\ UNCHANGED <<inflight, signalled, graceElapsed, redisClosed, exitCode,
                   served>>
    /\ UNCHANGED <<cartVars, connVars, dbVars, handleVars, appVars>>

\* The goroutine runs srv.ListenAndServe: it listens, or returns
\* ErrServerClosed when Shutdown has been called, or fails to bind the port
\* (zapLogger.Fatal: exit 1).
ListenerStart ==
    /\ listenerPc = "starting"
    /\ mainPc # "exited"
    /\ IF mainPc \in {"shutdown", "shutdownWait"}
       THEN /\ listenerPc' = "closed"
            /\ UNCHANGED <<mainPc, exitCode>>
       ELSE \E bound \in BOOLEAN :
                IF bound
                THEN /\ listenerPc' = "listening"
                     /\ UNCHANGED <<mainPc, exitCode>>
                ELSE /\ listenerPc' = "closed"
                     /\ mainPc' = "exited"
                     /\ exitCode' = 1
    /\ UNCHANGED <<inflight, signalled, graceElapsed, redisClosed, served>>
    /\ UNCHANGED <<cartVars, connVars, dbVars, handleVars, appVars>>

\* the server accepts a request
AcceptRequest ==
    /\ listenerPc = "listening"
    /\ mainPc # "exited"
    /\ served < MaxRequests
    /\ inflight' = inflight + 1
    /\ served' = served + 1
    /\ UNCHANGED <<mainPc, listenerPc, signalled, graceElapsed, redisClosed,
                   exitCode>>
    /\ UNCHANGED <<cartVars, connVars, dbVars, handleVars, appVars>>

\* a handler returns its answer
FinishRequest ==
    /\ inflight > 0
    /\ mainPc # "exited"
    /\ inflight' = inflight - 1
    /\ UNCHANGED <<mainPc, listenerPc, signalled, graceElapsed, redisClosed,
                   exitCode, served>>
    /\ UNCHANGED <<cartVars, connVars, dbVars, handleVars, appVars>>

\* <-quit receives SIGINT or SIGTERM; srv.Shutdown(shutdownCtx) starts and
\* closes the listener
Signal ==
    /\ mainPc = "waitQuit"
    /\ signalled' = TRUE
    /\ mainPc' = "shutdown"
    /\ listenerPc' = IF listenerPc = "listening" THEN "closed" ELSE listenerPc
    /\ UNCHANGED <<inflight, graceElapsed, redisClosed, exitCode, served>>
    /\ UNCHANGED <<cartVars, connVars, dbVars, handleVars, appVars>>

\* the 5s deadline of shutdownCtx passes
GraceElapses ==
    /\ mainPc \in {"shutdown", "shutdownWait"}
    /\ ~graceElapsed
    /\ graceElapsed' = TRUE
    /\ UNCHANGED <<mainPc, listenerPc, inflight, signalled, redisClosed,
                   exitCode, served>>
    /\ UNCHANGED <<cartVars, connVars, dbVars, handleVars, appVars>>

\* srv.Shutdown looks for open connections.  With none it returns nil: main
\* logs, returns, and its deferred functions run (redisClient.Close()).
ShutdownPoll ==
    /\ mainPc = "shutdown"
    /\ IF inflight = 0
       THEN /\ mainPc' = "exited"
            /\ redisClosed' = TRUE
            /\ exitCode' = 0
       ELSE /\ mainPc' = "shutdownWait"
            /\ UNCHANGED <<redisClosed, exitCode>>
    /\ UNCHANGED <<listenerPc, inflight, signalled, graceElapsed, served>>
    /\ UNCHANGED <<cartVars, connVars, dbVars, handleVars, appVars>>

\* if err := srv.Shutdown(shutdownCtx); err != nil { zapLogger.Fatal(...) }
ShutdownFatal(err) == err # ""

\* srv.Shutdown wakes from its select: the context is done (it returns
\* ctx.Err()) or the poll ticker fired (it looks again)
ShutdownWake ==
    /\ mainPc = "shutdownWait"
    /\ \E branch \in {"done", "tick"} :
        /\ branch = "done" => graceElapsed
        /\ IF branch = "tick"
           THEN /\ mainPc' = "shutdown"
                /\ UNCHANGED <<redisClosed, exitCode>>
           ELSE /\ mainPc' = "exited"
                /\ IF ShutdownFatal("context deadline exceeded")
                   THEN /\ exitCode' = 1
                        /\ UNCHANGED redisClosed
                   ELSE /\ exitCode' = 0
                        /\ redisClosed' = TRUE
    /\ UNCHANGED <<listenerPc, inflight, signalled, graceElapsed, served>>
    /\ UNCHANGED <<cartVars, connVars, dbVars, handleVars, appVars>>

NextMain ==
    \/ MainInitRedisReturns
    \/ MainStartServer
    \/ ListenerStart
    \/ AcceptRequest
    \/ FinishRequest
    \/ Signal
    \/ GraceElapses
    \/ ShutdownPoll
    \/ ShutdownWake

\* --------------------------- the handles: Client.Close and GET /healthz
NoHealth == [code |-> 0, status |-> "", store |-> ""]

\* established handles nobody has used yet
HandleIdle ==
    /\ hClosed = [s \in Stores |-> FALSE]
    /\ closeResults = [s \in Stores |-> <<>>]
    /\ healthPing = [s \in Stores |-> "none"]
    /\ healthResp = [s \in Stores |-> NoHealth]

\* cart-service Client.Close returns c.rdb.Close(): the connection pool of
\* go-redis answers a Close after the first with its error "client is closed"
RedisCloseErr(closed) == IF closed THEN "redis: client is closed" ELSE ""

\* product-service Client.Close calls c.pool.Close() and returns nothing;
\* pgxpool closes once and ignores later calls
DbCloseErr(closed) == ""

CloseErr(s, closed) ==
    IF s = "redis" THEN RedisCloseErr(closed) ELSE DbCloseErr(closed)

\* a call of Close on the handle of store s
CloseCall(s) ==
    /\ Len(closeResults[s]) < MaxCloses
    /\ closeResults' =
           [closeResults EXCEPT ![s] = Append(@, CloseErr(s, hClosed[s]))]
    /\ hClosed' = [hClosed EXCEPT ![s] = TRUE]
    /\ UNCHANGED <<healthPing, healthResp>>
    /\ UNCHANGED <<cartVars, connVars, dbVars, mainVars, appVars>>

\* what the store does with the ping of a health request
PingOutcomes == {"ok", "refused", "timeout"}

\* Client.Ping: the error of the ping, "" for nil.  The ping runs under a
\* context of 2 seconds; a closed handle answers with an error.
PingErr(closed, net) ==
    IF closed THEN "closed"
    ELSE IF net = "ok" THEN ""
    ELSE IF net = "refused" THEN "connection refused"
    ELSE "context deadline exceeded"

CartHealthz_AlwaysOK(err) ==
    [code |-> 200, status |-> "healthy", store |-> "healthy"]

\* cart-service HealthHandler.Healthz
CartHealthz(err) ==
    IF err # ""
    THEN [code |-> 503, status |-> "unhealthy", store |-> "unhealthy"]
    ELSE [code |-> 200, status |-> "healthy", store |-> "healthy"]

\* product-service Healthz(dbClient); the ping is made when dbClient != nil
DbHealthz(present, err) ==
    LET failed == present /\ err # ""
        dbStatus == IF failed THEN "unhealthy" ELSE "healthy"
        statusCode == IF failed THEN 503 ELSE 200
    IN  [code |-> statusCode,
         status |-> IF statusCode # 200 THEN "unhealthy" ELSE "healthy",
         store |-> dbStatus]

\* GET /healthz of the service of store s
HealthzRequest(s) ==
    /\ \E net \in PingOutcomes :
        LET err == PingErr(hClosed[s], net)
        IN  /\ healthPing' = [healthPing EXCEPT ![s] = err]
            /\ healthResp' = [healthResp EXCEPT ![s] =
                   IF s = "redis" THEN CartHealthz(err)
                   ELSE DbHealthz(TRUE, err)]
    /\ UNCHANGED <<hClosed, closeResults>>
    /\ UNCHANGED <<cartVars, connVars, dbVars, mainVars, appVars>>

NextHandle == \E s \in Stores : CloseCall(s) \/ HealthzRequest(s)

\* ---------------------------- checkout-service CheckoutService.java
\* what restTemplate.getForObject(cartUrl, Map.class) gives: an exception,
\* null, or a Map that is empty, has no "items", has "items" of another
\* type than List, or has a List of n items
CartReplies ==
    {[kind |-> k, n |-> 0] :
        k \in {"throws", "null", "emptyMap", "noItems", "notList"}}
    \cup {[kind |-> "list", n |-> n] : n \in 0..MaxItems}

\* verifyCart: catch (Exception e) { return null; }
VerifyCart(reply) ==
    IF reply.kind = "throws" THEN [kind |-> "null", n |-> 0] ELSE reply

CartMissing_NullOnly(cartData) == cartData.kind = "null"

\* cartData == null || cartData.isEmpty()
CartMissing(cartData) == cartData.kind \in {"null", "emptyMap"}

\* int totalItems: items.size() when "items" is a List, else 0
CartItemCount(cartData) == IF cartData.kind = "list" THEN cartData.n ELSE 0

TransactionOf_AlwaysSuccess(id, user, total, status) ==
    [id |-> id, user |-> user, status |-> "SUCCESS", total |-> total]

\* saveTransaction: the Transaction entity built and saved
TransactionOf(id, user, total, status) ==
    [id |-> id, user |-> user, status |-> status, total |-> total]

\* saveTransaction: the CheckoutResponse built and returned
ResponseOf(id, user, total, status) ==
    [id |-> id, user |-> user, status |-> status, total |-> total]

NoCoResp == [id |-> 0, user |-> NoUser, status |-> "", total |-> 0]

NoCheckout ==
    [pc |-> "idle", id |-> 0, user |-> NoUser,
     reply |-> [kind |-> "null", n |-> 0], status |-> "", total |-> 0,
     inCatch |-> FALSE, paid |-> FALSE, resp |-> NoCoResp]

\* no call of processCheckout, an empty transactions table
CheckoutIdle ==
    /\ checkout = NoCheckout
    /\ transactions = <<>>

\* processCheckout(request) is called; transactionId is a fresh UUID
ProcessCheckout(u) ==
    /\ checkout.pc \in {"idle", "returned", "thrown"}
    /\ checkout.id < MaxCheckouts
    /\ checkout' = [NoCheckout EXCEPT !.pc = "verify", !.id = checkout.id + 1,
                                      !.user = u]
    /\ UNCHANGED <<transactions, cartVars, connVars, dbVars, mainVars,
                   handleVars, uiVars>>

\* Steps 1 and 2: verifyCart and the tests of its result, up to the call of
\* saveTransaction or of simulatePaymentProcessing
CoVerifyCart ==
    /\ checkout.pc = "verify"
    /\ \E reply \in CartReplies :
        LET cartData == VerifyCart(reply)
        IN  checkout' =
              IF CartMissing(cartData)
              THEN [checkout EXCEPT !.reply = reply, !.pc = "save",
                                    !.status = "CART_NOT_FOUND", !.total = 0]
              ELSE IF CartItemCount(cartData) = 0
              THEN [checkout EXCEPT !.reply = reply, !.pc = "save",
                                    !.status = "CART_EMPTY", !.total = 0]
              ELSE [checkout EXCEPT !.reply = reply, !.pc = "pay",
                                    !.total = CartItemCount(cartData)]
    /\ UNCHANGED <<transactions, cartVars, connVars, dbVars, mainVars,
                   handleVars, uiVars>>

\* Step 3: simulatePaymentProcessing, true or false (also when interrupted)
CoPayment ==
    /\ checkout.pc = "pay"
    /\ \E paymentSuccess \in BOOLEAN :
        checkout' = [checkout EXCEPT
                        !.pc = "save", !.paid = TRUE,
                        !.status = IF paymentSuccess THEN "SUCCESS"
                                                     ELSE "FAILED"]
    /\ UNCHANGED <<transactions, cartVars, connVars, dbVars, mainVars,
                   handleVars, uiVars>>

\* saveTransaction: transactionRepository.save stores the row and the
\* response is returned, or it throws and stores nothing.  An exception
\* inside the try block goes to catch (Exception e), which calls
\* saveTransaction with "ERROR"; an exception there leaves processCheckout.
CoSave ==
    /\ checkout.pc = "save"
    /\ \E saveThrows \in BOOLEAN :
        IF ~saveThrows
        THEN /\ transactions' = Append(transactions,
                    TransactionOf(checkout.id, checkout.user, checkout.total,
                                  checkout.status))
             /\ checkout' = [checkout EXCEPT
                    !.pc = "returned",
                    !.resp = ResponseOf(checkout.id, checkout.user,
                                        checkout.total, checkout.status)]
        ELSE /\ UNCHANGED transactions
             /\ checkout' =
                  IF checkout.inCatch
                  THEN [checkout EXCEPT !.pc = "thrown"]
                  ELSE [checkout EXCEPT !.inCatch = TRUE, !.status = "ERROR",
                                        !.total = 0]
    /\ UNCHANGED <<cartVars, connVars, dbVars, mainVars, handleVars, uiVars>>

NextCheckout ==
    \/ \E u \in Users : ProcessCheckout(u)
    \/ CoVerifyCart
    \/ CoPayment
    \/ CoSave

\* ------------------------------------------ shop-ui CartContext.jsx
\* The product ids a cart of "guest" can hold: the products, and the text
\* String(undefined) that removeFromCart sends for an item without an id.
UiProducts == Products \cup {"undefined"}

NoItems == [p \in UiProducts |-> 0]

\* the catalogs GET /api/products is tried with: all products, or p2 missing
Catalogs == {Products, {"p1"}}

\* how a fetch() can end: a 2xx answer, another answer (response.ok false),
\* or a rejected promise (network error)
FetchOutcomes == {"ok", "httpError", "throws"}

\* fetchCart: cartData.items, the entries of the cart with their quantities
CartData(cart) ==
    {[product_id |-> p, quantity |-> cart[p]] :
        p \in {x \in UiProducts : cart[x] > 0}}

\* fetchCart: the items merged with the product details; an item without a
\* product of the catalog is dropped (.filter(Boolean))
EnrichedItems(items, catalog) ==
    {[key |-> i.product_id, id |-> i.product_id, quantity |-> i.quantity] :
        i \in {x \in items : x.product_id \in catalog}}

\* fetchCart: setCartItems(items), "Fallback to cart data only": the items
\* have product_id and quantity but no id
RawItems(items) ==
    {[key |-> i.product_id, id |-> "undefined", quantity |-> i.quantity] :
        i \in items}

\* fetchCart: the new value of cartItems, given how GET /api/cart/guest and
\* GET /api/products ended
FetchedItems(old, cart, catalog, cartOut, productsOut) ==
    IF cartOut # "ok" THEN old
    ELSE IF CartData(cart) = {} THEN {}
    ELSE IF productsOut = "throws" THEN old
    ELSE IF productsOut = "ok" THEN EnrichedItems(CartData(cart), catalog)
    ELSE RawItems(CartData(cart))

\* removeFromCart: cartItems.filter(item => String(item.id) !== String(productId))
ItemsToKeep(items, productId) == {i \in items : i.id # productId}

NoShop ==
    [pc |-> "idle", catalog |-> Products, cartItems |-> {}, target |-> "",
     itemsToKeep |-> {}, before |-> NoItems, added |-> NoItems, removes |-> 0,
     otherAdds |-> 0]

\* no shop session, an empty cart of "guest"
UiIdle ==
    /\ guestCart = NoItems
    /\ shop = NoShop

AppIdle == CheckoutIdle /\ UiIdle

\* a session that has just been opened (cartItems = [] until the fetchCart
\* of the mount effect) on a cart that holds two products
InitUi ==
    /\ guestCart = [p \in UiProducts |->
                       IF p = "p1" THEN 1 ELSE IF p = "p2" THEN 3 ELSE 0]
    /\ \E c \in Catalogs : shop = [NoShop EXCEPT !.catalog = c]

\* fetchCart, called by the mount effect or by the user interface
FetchCart ==
    /\ shop.pc = "idle"
    /\ \E cartOut \in FetchOutcomes, productsOut \in FetchOutcomes :
        shop' = [shop EXCEPT !.cartItems =
                    FetchedItems(shop.cartItems, guestCart, shop.catalog,
                                 cartOut, productsOut)]
    /\ UNCHANGED <<guestCart, cartVars, connVars, dbVars, mainVars,
                   handleVars, coVars>>

\* addToCart of another session: POST /api/cart/guest with quantity 1
OtherSessionAdd ==
    /\ shop.otherAdds < MaxOtherAdds
    /\ \E p \in Products :
        /\ guestCart' = [guestCart EXCEPT ![p] = @ + 1]
        /\ shop' = [shop EXCEPT !.otherAdds = @ + 1,
                                !.added = IF shop.pc \in {"idle", "done"}
                                          THEN shop.added
                                          ELSE [shop.added EXCEPT ![p] = @ + 1]]
    /\ UNCHANGED <<cartVars, connVars, dbVars, mainVars, handleVars, coVars>>

\* removeFromCart(item.id) of a displayed item, up to the first await
RemoveFromCart ==
    /\ shop.pc \in {"idle", "done"}
    /\ shop.removes < MaxRemoves
    /\ \E item \in shop.cartItems :
        shop' = [shop EXCEPT
                    !.pc = "delete",
                    !.target = item.id,
                    !.itemsToKeep = ItemsToKeep(shop.cartItems, item.id),
                    !.before = guestCart,
                    !.added = NoItems,
                    !.removes = @ + 1]
    /\ UNCHANGED <<guestCart, cartVars, connVars, dbVars, mainVars,
                   handleVars, coVars>>

\* await fetch('/api/cart/guest', { method: 'DELETE' }): the answer is not
\* looked at; a rejected promise goes to the catch block
RmClear ==
    /\ shop.pc = "delete"
    /\ \E out \in FetchOutcomes :
        /\ guestCart' = IF out = "ok" THEN NoItems ELSE guestCart
        /\ shop' = [shop EXCEPT !.pc = IF out = "throws" THEN "done"
                                       ELSE "readd"]
    /\ UNCHANGED <<cartVars, connVars, dbVars, mainVars, handleVars, coVars>>

\* one round of the loop "for (const item of itemsToKeep)": the POST of the
\* item with its quantity; the answer is not looked at
RmReAdd ==
    /\ shop.pc = "readd"
    /\ \E item \in shop.itemsToKeep, out \in FetchOutcomes :
        /\ guestCart' = IF out = "ok"
                        THEN [guestCart EXCEPT ![item.id] = @ + item.quantity]
                        ELSE guestCart
        /\ shop' = [shop EXCEPT
                       !.itemsToKeep = @ \ {item},
                       !.pc = IF out = "throws" THEN "done" ELSE "readd"]
    /\ UNCHANGED <<cartVars, connVars, dbVars, mainVars, handleVars, coVars>>

\* the loop is over: await fetchCart(), and removeFromCart returns
RmFetchCart ==
    /\ shop.pc = "readd"
    /\ shop.itemsToKeep = {}
    /\ \E cartOut \in FetchOutcomes, productsOut \in FetchOutcomes :
        shop' = [shop EXCEPT
                    !.pc = "done",
                    !.cartItems =
                        FetchedItems(shop.cartItems, guestCart, shop.catalog,
                                     cartOut, productsOut)]
    /\ UNCHANGED <<guestCart, cartVars, connVars, dbVars, mainVars,
                   handleVars, coVars>>

NextUi ==
    \/ FetchCart
    \/ OtherSessionAdd
    \/ RemoveFromCart
    \/ RmClear
    \/ RmReAdd
    \/ RmFetchCart

\* nothing but the cart and its connection is modelled
SvcIdle == DbIdle /\ MainIdle /\ HandleIdle /\ AppIdle

Init == InitCart /\ Connected /\ SvcIdle

\* one step of request task t
Step(t) ==
    \/ PostRequest(t)
    \/ AddItemCall(t)
    \/ GetRequest(t)
    \/ DeleteRequest(t)
    \/ ItemCountCall(t)
    \/ HIncrBySend(t)
    \/ HGetAllSend(t)
    \/ DelSend(t)
    \/ HLenSend(t)
    \/ Return(t)

Next == \E t \in Tasks : Step(t)

Spec == Init /\ [][Next]_vars

\* The service next to another writer of the same Redis; the requests are
\* served one at a time.
NextCorrupt == Step("t1") \/ ExternalWrite

SpecCorrupt == Init /\ [][NextCorrupt]_vars

InitStartup == InitCart /\ InitConnect /\ SvcIdle

NextConnect == EnterLoop \/ PingAttempt \/ TimerFires \/ CtxCancel \/ SelectWake

SpecConnect == InitStartup /\ [][NextConnect]_vars

\* One connect of either store: pingWithRetry of the cart-service or
\* NewClient of the product-service.  Time passes and a running call takes
\* its next step (a ping returns, a timer fires, a sleep ends), hence the
\* fairness.
InitStores ==
    /\ InitCart
    /\ MainIdle
    /\ HandleIdle
    /\ AppIdle
    /\ \/ InitConnect /\ DbIdle
       \/ Connected /\ InitDb

NextStores == NextConnect \/ NextDb

\* the steps of the calls themselves (a cancellation comes from outside)
ConnectSteps == EnterLoop \/ PingAttempt \/ TimerFires \/ SelectWake

DbSteps == DbEnter \/ DbAttempt \/ DbSleepEnds

SpecStores ==
    InitStores /\ [][NextStores]_vars /\ WF_vars(ConnectSteps)
        /\ WF_vars(DbSteps)

\* Both connects run side by side with the default policy against stores
\* that are given the same configuration.
InitBoth ==
    /\ InitCart
    /\ MainIdle
    /\ HandleIdle
    /\ AppIdle
    /\ InitConnect
    /\ retryConfig = DefaultRetryConfig
    /\ InitDb
    /\ dbCfg = DbConfig(DbDefaultMaxRetries, TRUE)

SpecBoth == InitBoth /\ [][NextStores]_vars

\* The cart-service process from the call of InitRedis to its exit.
InitProcess ==
    /\ InitCart
    /\ InitConnect
    /\ retryConfig = DefaultRetryConfig
    /\ DbIdle
    /\ InitMain
    /\ HandleIdle
    /\ AppIdle

NextProcess == NextConnect \/ NextMain

SpecProcess == InitProcess /\ [][NextProcess]_vars

\* Established handles of both stores in use.
SpecHandle == Init /\ [][NextHandle]_vars

\* The requests of one task and the health checks of the cart-service.
NextFrame == Step("t1") \/ HealthzRequest("redis")

SpecFrame == Init /\ [][NextFrame]_vars

\* One session of the shop UI and the addToCart of another session.
InitShop ==
    /\ InitCart
    /\ Connected
    /\ DbIdle
    /\ MainIdle
    /\ HandleIdle
    /\ CheckoutIdle
    /\ InitUi

SpecUi == InitShop /\ [][NextUi]_vars

\* Calls of processCheckout, one after the other.
SpecCheckout == Init /\ [][NextCheckout]_vars

TypeOK ==
    /\ \A t \in Tasks :
           pc[t] \in {"idle", "hincrby", "hgetall", "del", "hlen", "ret"}
    /\ \A t \in Tasks : attempt[t] \in 0..MaxCmdRetries
    /\ nops \in 0..MaxOps
    /\ connPc \in {"start", "ping", "wait", "connected", "failed", "cancelled"}

\* ----------------------------------------------------------- properties
\* the quantity a cart holds for a product: 0 when there is no entry
Qty(store, u, p) ==
    IF store[u][p] = NoField THEN 0 ELSE Atoi(store[u][p]).n

\* the items of a cart given as product -> quantity (0 = no entry)
CartItemsOf(c) ==
    {[ProductID |-> p, Quantity |-> c[p]] : p \in {x \in Products : c[x] > 0}}

Returned == \A t \in Tasks : pc[t] \in {"idle", "ret"}

\* C1: when all increment calls have returned success (no store command
\* returned an error, no clear was applied), the stored quantity of every
\* (user, product) is the quantity before the calls plus the sum of the
\* quantities of the calls: none is lost, none is applied twice.
C1_NoIncrementLostOrDoubled ==
    \A u \in Users :
        (Returned /\ allOK /\ ~cleared[u])
            => \A p \in Products : Qty(hash, u, p) = expected[u][p]

\* C2: a call of increment with quantity <= 0 (POST handler or Client.AddItem)
\* is answered in one step with an invalid-quantity error (400 at the
\* handler) and leaves the carts of all users as they were.
C2_InvalidQuantityNoMutation ==
    [][\A t \in Tasks :
          (pc[t] = "idle" /\ pc'[t] # "idle"
             /\ op'[t].kind \in {"POST", "ADD"} /\ op'[t].qty <= 0)
          => /\ hash' = hash
             /\ pc'[t] = "ret"
             /\ IF op'[t].kind = "POST"
                THEN resp'[t].status = 400
                ELSE resp'[t].err = "quantity must be positive"]_vars

\* a rejected increment next to a cart that holds entries
C2_Witness ==
    \E t \in Tasks, u \in Users :
        /\ pc[t] = "ret"
        /\ op[t].kind = "ADD"
        /\ op[t].qty = 0
        /\ op[t].user = u
        /\ resp[t].err = "quantity must be positive"
        /\ Fields(hash[u]) = Products

\* C3: every value stored in a cart is the decimal form of a positive
\* integer.
C3_StoredQuantitiesPositive ==
    \A u \in Users : \A p \in Fields(hash[u]) :
        /\ Atoi(hash[u][p]).ok
        /\ Atoi(hash[u][p]).n > 0
        /\ Itoa(Atoi(hash[u][p]).n) = hash[u][p]

\* an increment has created an entry and another has raised one
C3_Witness ==
    \E t \in Tasks :
        /\ pc[t] = "ret"
        /\ op[t].kind = "ADD"
        /\ resp[t].err = ""
        /\ nApplied[t] = 1
        /\ Qty(hash, op[t].user, op[t].product) = 3 + op[t].qty

\* C4: in a sequential run of successful calls, getCart returns exactly the
\* sums of the quantities incremented since the last clearCart.
C4_GetCartReturnsSums ==
    \A t \in Tasks :
        (pc[t] = "ret" /\ op[t].kind = "GET" /\ resp[t].status = 200
            /\ allOK /\ sequential)
        => resp[t].items = CartItemsOf(expected[op[t].user])

\* C5: the count answered by itemCount and the total_items of a cart answer
\* are the number of distinct products of the cart at the time of the read;
\* an increment of a product in the cart leaves the count, an increment of a
\* new product raises it by one, a clear sets it to 0.
C5_CountsDistinctProducts ==
    [][\A t \in Tasks :
          LET u == op[t].user
              n == Cardinality({p \in Products : applied[u][p] > 0})
          IN  /\ (pc[t] = "hlen" /\ pc'[t] = "ret" /\ resp'[t].err = "")
                    => resp'[t].count = n
              /\ (pc[t] = "hgetall" /\ pc'[t] = "ret"
                    /\ resp'[t].status = 200 /\ ~resp'[t].warning)
                    => resp'[t].total = n
              /\ (pc[t] = "hincrby" /\ nApplied'[t] = nApplied[t] + 1)
                    => ItemCountResult(hash', u) =
                         n + (IF applied[u][op[t].product] = 0 THEN 1 ELSE 0)
              /\ (pc[t] = "del" /\ pc'[t] = "ret" /\ resp'[t].status = 200)
                    => ItemCountResult(hash', u) = 0]_vars

\* itemCount answered 2 for a cart whose quantities sum to more than 2
C5_Witness ==
    \E t \in Tasks :
        /\ pc[t] = "ret"
        /\ op[t].kind = "COUNT"
        /\ resp[t].err = ""
        /\ resp[t].count = 2
        /\ Qty(hash, op[t].user, "p1") + Qty(hash, op[t].user, "p2") > 2

\* C6: a clearCart whose DEL is answered succeeds whatever the cart holds,
\* the cart is empty after it (getCart gives no item), and on an empty cart
\* it changes nothing.
C6_ClearIdempotent ==
    [][\A t \in Tasks :
          (pc[t] = "del" /\ pc'[t] = "ret" /\ nfaults' = nfaults)
          => LET u == op[t].user
             IN  /\ resp'[t].status = 200
                 /\ hash'[u] = EmptyHash
                 /\ GetCartItems(HGetAll(hash', u)) = {}
                 /\ (hash[u] = EmptyHash => hash' = hash)]_vars

\* two clears of the same cart both succeeded: the first removed the cart,
\* the second found it empty
C6_Witness ==
    \E t1 \in Tasks, t2 \in Tasks :
        /\ pc[t1] = "ret" /\ pc[t2] = "ret"
        /\ op[t1].kind = "DELETE" /\ op[t2].kind = "DELETE"
        /\ op[t1].user = op[t2].user
        /\ resp[t1].status = 200 /\ resp[t1].count = 1
        /\ resp[t2].status = 200 /\ resp[t2].count = 0
        /\ hash[op[t1].user] = EmptyHash

\* C7: what getCart and itemCount observe is the whole cart as the applied
\* commands left it: all the entries incremented since the last applied
\* clear, never a part of the cart a clear removed.
C7_ClearAtomic ==
    [][\A t \in Tasks :
          LET u == op[t].user
          IN  /\ (pc[t] = "hgetall" /\ pc'[t] = "ret"
                    /\ resp'[t].status = 200 /\ ~resp'[t].warning)
                    => resp'[t].items = CartItemsOf(applied[u])
              /\ (pc[t] = "hlen" /\ pc'[t] = "ret" /\ resp'[t].err = "")
                    => resp'[t].count = Cardinality(CartItemsOf(applied[u]))
     ]_vars

\* a getCart that ran while a clearCart of the same two-product cart was in
\* progress: it saw the cart after the clear
C7_Witness ==
    \E t1 \in Tasks, t2 \in Tasks :
        /\ op[t1].kind = "DELETE" /\ op[t2].kind = "GET"
        /\ op[t1].user = op[t2].user
        /\ pc[t1] = "del" /\ attempt[t1] = 1
        /\ expected[op[t1].user]["p1"] > 0 /\ expected[op[t1].user]["p2"] > 0
        /\ pc[t2] = "ret"
        /\ resp[t2].status = 200
        /\ resp[t2].items = {}

\* the integers a stored value is compared with
QuantityRange == -9..40

\* the entries of a cart whose stored value is the decimal form of an
\* integer of the set S, as items
DecimalItems(store, u, S) ==
    {[ProductID |-> y[1], Quantity |-> y[2]] :
        y \in {z \in Products \X S : store[u][z[1]] = Itoa(z[2])}}

C9_SingleAttempt ==
    \A t \in Tasks :
        /\ attempt[t] = 0
        /\ op[t].kind \in {"POST", "ADD"} => nApplied[t] <= 1

\* C10 as stated: when every ping failed and the context was not cancelled,
\* pingWithRetry (with a policy of at least one attempt) returns its error
\* after exactly MaxRetries pings, with a wait between two pings and none
\* after the last.
C10_FailsAfterMaxRetriesPings ==
    (connPc = "failed" /\ ~ctxDone /\ retryConfig.MaxRetries >= 1)
        => /\ pings = retryConfig.MaxRetries
           /\ Len(delays) = pings - 1

\* C10 amended: ... after exactly MaxRetries + 1 pings (the first attempt
\* and MaxRetries retries), with a wait between two pings and none after
\* the last.
C10_FailsAfterMaxRetriesPlusOnePings ==
    (connPc = "failed" /\ ~ctxDone)
        => /\ pings = retryConfig.MaxRetries + 1
           /\ Len(delays) = pings - 1

\* the default policy has run out: 6 pings, 5 waits
C10_Witness ==
    /\ connPc = "failed"
    /\ ~ctxDone
    /\ retryConfig = DefaultRetryConfig
    /\ pings = 6
    /\ Len(delays) = 5

\* ------------------------------------------------- connect: the delays
\* the waits made so far are the waits after attempts 1, 2, ...
WaitsFollowAttempts ==
    /\ connPc = "wait" => Len(delays) = pings
    /\ dbPc = "sleep" => Len(dbDelays) = dbTries

\* base delays of a sequence of waits agree with a list of expected values
BasesAre(ds, bases) ==
    /\ Len(ds) <= Len(bases)
    /\ \A k \in 1..Len(ds) : ds[k].base = bases[k]

\* C11 as stated: the delay before the jitter after the k-th failed attempt
\* is min(initial_delay * 2^k, max_delay) in both stores: 200, 400, 800,
\* 1600, 2000 (and 2000 from then on) milliseconds after attempts 1, 2, ...
C11_DelayIsInitialTimesTwoToK ==
    /\ WaitsFollowAttempts
    /\ BasesAre(delays, <<200, 400, 800, 1600, 2000, 2000, 2000>>)
    /\ BasesAre(dbDelays, <<200, 400, 800, 1600, 2000, 2000, 2000>>)

\* C11 amended: after the k-th failed attempt the product-service NewClient
\* waits min(100ms * 2^k, 2s) before the jitter (200, 400, 800, 1600, 2000,
\* 2000 ms) and the cart-service pingWithRetry waits
\* min(initial_delay * 2^(k-1), max_delay) (100, 200, 400, 800, 1600, 2000,
\* 2000 ms).
C11_DelayPerStore ==
    /\ WaitsFollowAttempts
    /\ BasesAre(delays, <<100, 200, 400, 800, 1600, 2000, 2000>>)
    /\ BasesAre(dbDelays, <<200, 400, 800, 1600, 2000, 2000>>)
    /\ \A k \in 1..Len(delays) :
           delays[k].base = Min(retryConfig.InitialDelay * Pow2(k - 1),
                                retryConfig.MaxDelay)

\* pingWithRetry has failed seven times and waits for the seventh time, the
\* delay at the cap
C11_Witness ==
    /\ connPc = "wait"
    /\ pings = 7
    /\ Len(delays) = 7
    /\ delays[5].base = 1600
    /\ delays[7].base = 2000

\* C12: in both stores the delays before the jitter never decrease from one
\* failed attempt to the next and never exceed max_delay, and every delay
\* waited lies within base * (1 -/+ jitter_fraction) of its base delay.
C12_DelaysMonotoneCappedJittered ==
    /\ \A k \in 1..Len(delays) :
        /\ delays[k].base <= retryConfig.MaxDelay
        /\ k > 1 => delays[k - 1].base <= delays[k].base
        /\ 100 * delays[k].actual >= delays[k].base * (100 - retryConfig.JitterPct)
        /\ 100 * delays[k].actual <= delays[k].base * (100 + retryConfig.JitterPct)
    /\ \A k \in 1..Len(dbDelays) :
        /\ dbDelays[k].base <= DbMaxDelayMs
        /\ k > 1 => dbDelays[k - 1].base <= dbDelays[k].base
        /\ 100 * dbDelays[k].actual >= dbDelays[k].base * (100 - DbJitterPct)
        /\ 100 * dbDelays[k].actual <= dbDelays[k].base * (100 + DbJitterPct)

\* NewClient sleeps for the sixth time: the fifth and sixth delays are at
\* the cap
C12_Witness ==
    /\ dbPc = "sleep"
    /\ Len(dbDelays) = 6
    /\ dbDelays[4].base = 1600
    /\ dbDelays[5].base = 2000
    /\ dbDelays[6].base = 2000

\* C13: in both stores no wait is started before the first attempt (every
\* wait follows a failed attempt), the step of a successful attempt returns
\* the handle without starting a wait, and after it no attempt and no wait
\* is made, whatever the number of failures before.
C13_NoWaitBeforeFirstNoneAfterSuccess ==
    [][/\ Len(delays') <= pings' /\ Len(dbDelays') <= dbTries'
       /\ (pings = 0 /\ pings' = 0) => delays' = <<>>
       /\ (dbTries = 0 /\ dbTries' = 0) => dbDelays' = <<>>
       /\ (connPc # "connected" /\ connPc' = "connected" /\ pings' > 0)
              => (pings' = pings + 1 /\ delays' = delays)
       /\ (dbTries' > dbTries /\ dbErr' = "")
              => (dbPc' = "connected" /\ dbDelays' = dbDelays)
       /\ connPc = "connected" => UNCHANGED <<connPc, pings, delays>>
       /\ (dbPc = "connected" \/ (dbTries > 0 /\ dbErr = ""))
              => UNCHANGED <<dbPc, dbTries, dbDelays>>
      ]_vars

\* NewClient has connected at its third attempt, after two sleeps
C13_Witness ==
    /\ dbPc = "connected"
    /\ dbTries = 3
    /\ Len(dbDelays) = 2
    /\ dbErr = ""

\* C14: when the context is cancelled (or past its deadline) while connect
\* waits between two attempts, the wait is not finished and no further
\* attempt is made: the next thing connect does is to return, in
\* pingWithRetry with the error of the context, and likewise in NewClient.
C14_CancelEndsWait ==
    [][/\ (connPc = "wait" /\ ctxDone /\ ~timerFired)
              => /\ connPc' \in {"wait", "cancelled"}
                 /\ pings' = pings
                 /\ ~timerFired'
                 /\ connPc' = "cancelled" => lastErr' = "context done"
       /\ (dbPc = "sleep" /\ dbCtxDone)
              => /\ dbPc' \in {"sleep", "failed"}
                 /\ dbTries' = dbTries
                 /\ dbPc' = "failed" => dbErr' = "context done"
      ]_vars

\* C15: the HTTP listener of the cart-service is started, and a request is
\* accepted, only when InitRedis has returned a connection verified by a
\* ping; when InitRedis returned an error (attempts used up, or the startup
\* deadline reached) the process has exited with status 1 and has never
\* started its listener or served a request.
C15_ServesOnlyWhenConnected ==
    /\ (listenerPc # "none" \/ inflight > 0 \/ served > 0
            \/ mainPc \in {"setup", "waitQuit", "shutdown", "shutdownWait"})
           => (connPc = "connected" /\ pings >= 1)
    /\ (mainPc # "initRedis" /\ connPc \in {"failed", "cancelled"})
           => /\ mainPc = "exited"
              /\ exitCode = 1
              /\ listenerPc = "none"
              /\ served = 0
              /\ inflight = 0

\* InitRedis gave up after six failed pings and the process has exited
C15_Witness ==
    /\ connPc = "failed"
    /\ pings = 6
    /\ mainPc = "exited"
    /\ exitCode = 1
    /\ listenerPc = "none"

\* the connection state of a connect at a position of its code
ConnState(p) ==
    CASE p \in {"none", "start"} -> "Disconnected"
      [] p \in {"ping", "wait", "attempt", "sleep"} -> "Connecting"
      [] p = "connected" -> "Connected"
      [] p = "failed" -> "Failed"
      [] p = "cancelled" -> "Cancelled"
      [] OTHER -> "ConfigError"

\* the moves of the connection state the protocol allows
ConnMoves ==
    {<<"Disconnected", "Connecting">>, <<"Connecting", "Connecting">>,
     <<"Connecting", "Connected">>, <<"Connecting", "Failed">>,
     <<"Connecting", "Cancelled">>}

\* the policy allows at least one attempt and the target is well formed
PolicyValid ==
    /\ retryConfig.MaxRetries >= 0
    /\ dbCfg.MaxRetries >= 0
    /\ dbCfg.urlValid

\* C16: every execution of connect (pingWithRetry, NewClient) ends, whatever
\* the failures of its pings, in one of the outcomes Connected (a handle
\* after a successful attempt), Failed (attempts used up) or cancelled; on
\* the way the connection state moves only Disconnected -> Connecting ->
\* Connected / Failed / cancelled, the attempts never exceed the number
\* the policy allows, and after the outcome no attempt or wait is made.
C16_ConnectTerminates ==
    /\ [][PolicyValid =>
            /\ connPc' # connPc
                   => <<ConnState(connPc), ConnState(connPc')>> \in ConnMoves
            /\ dbPc' # dbPc
                   => <<ConnState(dbPc), ConnState(dbPc')>> \in ConnMoves
            /\ pings' <= retryConfig.MaxRetries + 1
            /\ dbTries' <= dbCfg'.MaxRetries
            /\ (connPc' = "connected" /\ connPc # "connected")
                   => pings' = pings + 1
            /\ connPc' = "failed"
                   => (pings' = retryConfig.MaxRetries + 1 /\ lastErr' # "")
            /\ connPc' = "cancelled" => ctxDone'
            /\ dbPc' = "connected"
                   => (dbTries' >= 1 /\ dbErr' = "" /\ dbPool' = "open")
            /\ dbPc' = "failed"
                   => (dbTries' = dbCfg'.MaxRetries /\ dbErr' # "")
            /\ connPc \in {"connected", "failed", "cancelled"}
                   => UNCHANGED <<connPc, pings, delays>>
            /\ dbPc \in {"connected", "failed"}
                   => UNCHANGED <<dbPc, dbTries, dbDelays>>
       ]_vars
    /\ <>(/\ connPc \in {"connected", "failed", "cancelled"}
          /\ dbPc \in {"none", "connected", "failed", "parseError"})

\* pingWithRetry was cancelled in its third wait
C16_Witness ==
    /\ connPc = "cancelled"
    /\ ctxDone
    /\ pings = 3
    /\ Len(delays) = 3

\* C17: once SIGINT or SIGTERM has been received the cart-service accepts
\* no new request, and whenever the process has exited after the signal,
\* with the requests finished in time or with the 5s grace window elapsed,
\* the Redis connection has been closed before.
C17_ShutdownClosesRedis ==
    /\ signalled => listenerPc # "listening"
    /\ (signalled /\ mainPc = "exited") => redisClosed

\* C18: Close on an established handle is idempotent in both services: a
\* second (or later) call reports no error, like the first, and the handle
\* stays closed.
C18_CloseIdempotent ==
    \A s \in Stores :
        /\ \A k \in 1..Len(closeResults[s]) : closeResults[s][k] = ""
        /\ Len(closeResults[s]) >= 1 => hClosed[s]

C20_SameProtocol ==
    (connPc = "failed" /\ ~ctxDone /\ dbPc = "failed" /\ ~dbCtxDone)
        => /\ pings = dbTries
           /\ Len(delays) = Len(dbDelays)
           /\ \A k \in 1..Min(Len(delays), Len(dbDelays)) :
                  delays[k].base = dbDelays[k].base

\* ------------------------------------------- NewClient: attempts and errors
\* C21: NewClient run with MaxRetries >= 0 against a database that never
\* answers returns the error after exactly cfg.MaxRetries attempts (5 when
\* MaxRetries was 0), having slept between consecutive attempts and not after
\* the last; it returns without an error only after a ping that succeeded;
\* an unparsable URL ends the call with an error in the first iteration,
\* before any attempt and any sleep, and nothing follows it.
C21_FailsAfterMaxRetriesAttempts ==
    /\ [](dbCfg.MaxRetries >= 0 =>
            /\ dbPc = "failed" =>
                  /\ dbErr # ""
                  /\ dbTries = dbCfg.MaxRetries
                  /\ Len(dbDelays) = dbTries - 1
            /\ dbPc = "sleep" => (dbTries < dbCfg.MaxRetries
                                    /\ Len(dbDelays) = dbTries)
            /\ dbPc = "connected" => (dbErr = "" /\ dbTries >= 1)
            /\ dbPc = "parseError" =>
                  /\ ~dbCfg.urlValid
                  /\ dbErr # ""
                  /\ dbAttempt = 1
                  /\ dbTries = 0
                  /\ dbDelays = <<>>)
    /\ [][/\ dbPc = "start" /\ dbPc' # "start" =>
                dbCfg'.MaxRetries = IF dbCfg.MaxRetries = 0
                                    THEN DbDefaultMaxRetries
                                    ELSE dbCfg.MaxRetries
          /\ dbPc # "start" => dbCfg' = dbCfg
          /\ dbPc \in {"parseError", "failed"} => UNCHANGED dbVars]_vars

C21_Witness ==
    /\ dbPc = "failed"
    /\ ~dbCtxDone
    /\ dbTries = DbDefaultMaxRetries
    /\ Len(dbDelays) = DbDefaultMaxRetries - 1

\* C22: each sleep of NewClient lasts its base delay plus the jitter of its
\* own random draw, a value of +-10% of the base delay: for the draw x of
\* rand.Float64() the sleep is base + (0.2x - 0.1) * base, so that different
\* draws give different sleeps.
C22_JitterPerturbsDelay ==
    dbPc = "sleep" =>
        LET d == dbDelays[Len(dbDelays)]
        IN  d.actual = d.base + TruncQuot((2 * dbRand - 1000) * d.base, 10000)

\* C27: a connect that has returned a handle without an error has made at
\* least one liveness check, and the check succeeded on the pool the handle
\* wraps; this for every configured attempt count, zero and negative included.
C27_HandleOnlyAfterPing ==
    /\ dbPc = "connected" => (dbTries >= 1 /\ dbPool = "open" /\ dbErr = "")
    /\ connPc = "connected" => pings >= 1

\* C28: connect releases what its failed attempts opened.  In NewClient a
\* pool whose ping failed is closed before the next attempt creates a pool
\* and before the error is returned, so at most one pool of the call is open
\* at any time; when InitRedis returns an error, the Redis client it created
\* has been closed.
C28_FailedAttemptsReleased ==
    /\ dbOpen <= 1
    /\ dbPc \in {"attempt", "failed"} => dbOpen = 0
    /\ connPc \in {"failed", "cancelled"} => hClosed["redis"]

\* ------------------------------------------------ checkout: processCheckout
\* the rows saved by the call with transaction id `id`
SavedBy(id) == {k \in 1..Len(transactions) : transactions[k].id = id}

CheckoutStatuses == {"SUCCESS", "FAILED", "CART_NOT_FOUND", "CART_EMPTY", "ERROR"}

\* the one row of the current call agrees with its response
RecordMatchesResponse ==
    /\ Cardinality(SavedBy(checkout.id)) = 1
    /\ checkout.resp.status \in CheckoutStatuses
    /\ checkout.resp.user = checkout.user
    /\ \A k \in SavedBy(checkout.id) :
          /\ transactions[k].status = checkout.resp.status
          /\ transactions[k].user = checkout.resp.user

\* C23 as stated: every call of processCheckout that has ended has saved
\* exactly one transaction record, and the status and the user id of the
\* record are those of the response.
C23_EveryCallSavesOneRecord ==
    checkout.pc \in {"returned", "thrown"} => RecordMatchesResponse

\* C23, amended: a call that returns a response has saved exactly one
\* record, with the status and the user id of the response; a call ends
\* without a response only when save threw in the try block and again in
\* the catch handler, and it has then saved no record; no call saves a
\* record before it returns.
C23_ReturnedCallSavedOneRecord ==
    /\ checkout.pc = "returned" => RecordMatchesResponse
    /\ checkout.pc = "thrown" =>
          (checkout.inCatch /\ SavedBy(checkout.id) = {})
    /\ checkout.pc \in {"verify", "pay", "save"} => SavedBy(checkout.id) = {}
    /\ \A id \in 1..MaxCheckouts : Cardinality(SavedBy(id)) <= 1

C23_Witness ==
    /\ checkout.pc = "returned"
    /\ checkout.resp.status = "ERROR"
    /\ checkout.id = 2
    /\ Len(transactions) = 2
    /\ transactions[1].status = "SUCCESS"

\* the reply of the cart-service the current call of processCheckout got
ReplyMissing == checkout.reply.kind \in {"throws", "null", "emptyMap"}
ReplyItems ==
    IF checkout.reply.kind = "list" THEN checkout.reply.n ELSE 0

\* the status and total_items the reply of the cart-service leads to
StatusFollowsReply ==
    /\ ReplyMissing =>
          (checkout.resp.status = "CART_NOT_FOUND" /\ checkout.resp.total = 0)
    /\ (~ReplyMissing /\ ReplyItems = 0) =>
          (checkout.resp.status = "CART_EMPTY" /\ checkout.resp.total = 0)
    /\ checkout.resp.status \in {"SUCCESS", "FAILED"} =>
          (ReplyItems >= 1 /\ checkout.resp.total = ReplyItems)

\* the payment simulation has run only for a cart with at least one item
PaymentOnlyWithItems ==
    /\ checkout.paid => (~ReplyMissing /\ ReplyItems >= 1)
    /\ checkout.resp.status \in {"SUCCESS", "FAILED"} => checkout.paid

\* C24 as stated: the response is CART_NOT_FOUND with total_items 0 when the
\* call of the cart-service threw or gave null or empty data, CART_EMPTY with
\* total_items 0 when the cart has no items, SUCCESS or FAILED only for a
\* cart of at least one item, with total_items the number of items; the
\* payment simulation runs only in the last case.
C24_StatusFollowsCart ==
    /\ checkout.pc = "returned" => StatusFollowsReply
    /\ PaymentOnlyWithItems

\* C24, amended: the same, for a call whose first save did not throw; a
\* call whose save threw in the try block returns ERROR with total_items 0,
\* whatever the cart-service answered.  A cart of at least one item gives
\* SUCCESS or FAILED (or that ERROR) with the number of items.
C24_StatusFollowsCartUnlessSaveThrew ==
    /\ checkout.pc = "returned" =>
          IF checkout.inCatch
          THEN checkout.resp.status = "ERROR" /\ checkout.resp.total = 0
          ELSE /\ StatusFollowsReply
               /\ ReplyItems >= 1 =>
                     /\ checkout.resp.status \in {"SUCCESS", "FAILED"}
                     /\ checkout.resp.total = ReplyItems
    /\ PaymentOnlyWithItems

C24_Witness ==
    /\ checkout.pc = "returned"
    /\ checkout.id = 2
    /\ checkout.reply = [kind |-> "list", n |-> 2]
    /\ checkout.resp.status = "FAILED"
    /\ checkout.resp.total = 2
    /\ transactions[1].status = "CART_NOT_FOUND"

\* ------------------------------------------------- cart: frame conditions
\* task t takes a step: each step of a request changes its position or the
\* attempt index of its command
Stepped(t) == pc'[t] # pc[t] \/ attempt'[t] # attempt[t]

\* C25: a step of increment(u, p, q) changes at most the stored value of
\* (u, p); a step of clearCart(u) changes at most the cart of u; a step of
\* getCart or itemCount, the start and the return of a request, and the ping
\* of the health check change no cart.
C25_Frame ==
    [][/\ \A t \in Tasks :
            Stepped(t) =>
                CASE pc[t] = "hincrby" ->
                        \A v \in Users, r \in Products :
                            (v # op[t].user \/ r # op[t].product)
                                => hash'[v][r] = hash[v][r]
                  [] pc[t] = "del" ->
                        \A v \in Users \ {op[t].user} : hash'[v] = hash[v]
                  [] OTHER -> hash' = hash
       /\ (\A t \in Tasks : ~Stepped(t)) => hash' = hash]_vars

C25_Witness ==
    /\ pc["t1"] = "ret"
    /\ op["t1"] = [kind |-> "ADD", user |-> "u2", product |-> "p1", qty |-> 2]
    /\ nApplied["t1"] = 1
    /\ hash["u2"]["p1"] = <<"3">>
    /\ hash["u2"]["p2"] = <<"3">>
    /\ hash["u1"] = EmptyHash
    /\ healthPing["redis"] = ""

\* ------------------------------------------- cart: concurrent calls
\* C26: concurrent increment, clearCart and getCart calls act as if run one
\* at a time in the order in which the store applied them: once all calls
\* have returned, without an error, the quantity of each product is the sum
\* of the increments of the calls that follow the last clearCart, each call
\* counted once; and a getCart returns the cart as it is at the point of the
\* order at which its HGETALL is applied.
C26_Linearizable ==
    /\ [](\A u \in Users :
            (Returned /\ allOK)
                => \A p \in Products : Qty(hash, u, p) = expected[u][p])
    /\ [][\A t \in Tasks :
            (/\ pc[t] = "hgetall"
             /\ pc'[t] = "ret"
             /\ op[t].kind = "GET"
             /\ resp'[t].status = 200)
                => resp'[t].items = CartItemsOf(applied[op[t].user])]_vars

\* ------------------------------------------- POST /v1/cart/:user_id
\* C29: the POST handler answers 500 only with the error of the increment
\* call; once the increment has returned success the handler answers 200,
\* with a warning when the getCart that follows fails; and a request that is
\* answered 200 has had its increment applied exactly once.
C29_PostAnswer ==
    \A t \in Tasks :
        op[t].kind = "POST" =>
            /\ pc[t] = "hgetall" => nApplied[t] = 1
            /\ (pc[t] = "ret" /\ resp[t].status = 200) => nApplied[t] = 1
            /\ (pc[t] = "ret" /\ resp[t].status = 500) =>
                  (resp[t].err = "Failed to add item to cart"
                     /\ ~resp[t].warning)
            /\ (pc[t] = "ret" /\ resp[t].warning) => resp[t].status = 200

\* ------------------------------------------- shop UI: removeFromCart
\* C30: when removeFromCart(productId) has completed, every other product
\* that was in the server-side cart of the user before the call is in it
\* with its previous quantity (plus what another session added during the
\* call): also when an addToCart of another session interleaves, when a
\* request of the call fails, and when a cart item has no catalog product.
C30_RemovesOnlyThatProduct ==
    shop.pc = "done" =>
        \A p \in UiProducts \ {shop.target} :
            shop.before[p] > 0 =>
                guestCart[p] = shop.before[p] + shop.added[p]

====
